---- MODULE Spec2Model ----
(* A model of car_sim.py: a multi-lane circular road (Road, Lane, Car) with   *)
(* the two tick variants Road.update and Road.update_wLC, the neighbour       *)
(* search ahead_behind and the random crash injection.  Python list indices   *)
(* are 0-based; a TLA+ sequence holds Python's element i at index i + 1.      *)
(* A raised Python exception ends the run in pc = "raised" with the state as  *)
(* the interrupted call left it.                                              *)
EXTENDS Integers, Sequences, FiniteSets, TLC

\* ---- bounds of the model ----
NumLanes == 2
RoadLen == 4
MaxCarsPerLane == 2
MaxInitVel == 2
MaxTicks == 2
MaxCrashes == 1
\* a second, wider and shorter road, without crash injection
WideLanes == 3
WideLen == 3
\* the one-lane road of the long runs that see a crash through
LongLanes == 1
\* a road of three lanes long enough for a car to be passed on twice, one tick
TriLanes == 3
TriLen == 4
TriTicks == 1

\* the roads whose grid vel_vec is asked right after construction
VVLanes == 2
VVLen == 3

\* the inputs of ahead_behind
ABMaxLen == 20
ABMaxCars == 3

\* ---- program constants ----
MaxVel == 5
MinInitVel == 1
CrashTime == 30

VARIABLES num_lanes, length, cars_per_lane, lanes,
          pc, mode, lane_i, car_i, curr_posns, toPop,
          start, last, since, ticks_left, crashes_left

vars == <<num_lanes, length, cars_per_lane, lanes,
          pc, mode, lane_i, car_i, curr_posns, toPop,
          start, last, since, ticks_left, crashes_left>>

\* ---- values ----
\* Python's None, as returned by ahead_behind: no car has id 0
None == [id |-> 0, posn |-> 0, vel |-> 0, crash_timer |-> 0]

Car(ident, p, v) == [id |-> ident, posn |-> p, vel |-> v, crash_timer |-> 0]

Max2(a, b) == IF a >= b THEN a ELSE b

Max3(a, b, c) == Max2(a, Max2(b, c))

SetMin(S) == CHOOSE x \in S : \A y \in S : x <= y

RECURSIVE SortedSeqOf(_)
SortedSeqOf(S) == IF S = {} THEN <<>> ELSE <<SetMin(S)>> \o SortedSeqOf(S \ {SetMin(S)})

\* sorted(cars, key=posn) is stable: an element goes after every element of
\* the same position that precedes it in the list
RECURSIVE InsertByPosn(_, _)
InsertByPosn(c, s) ==
    IF s = <<>> THEN <<c>>
    ELSE IF s[Len(s)].posn <= c.posn THEN Append(s, c)
    ELSE Append(InsertByPosn(c, SubSeq(s, 1, Len(s) - 1)), s[Len(s)])

RECURSIVE SortedByPosn(_)
SortedByPosn(s) ==
    IF s = <<>> THEN <<>>
    ELSE InsertByPosn(s[Len(s)], SortedByPosn(SubSeq(s, 1, Len(s) - 1)))

get_posns(lane) == [k \in 1..Len(lane.cars) |-> lane.cars[k].posn]

get_vels(lane) == [k \in 1..Len(lane.cars) |-> lane.cars[k].vel]

\* ---- the crashed branch of Car.update and of Car.update_wLC ----
\* a crashed car that rolls back one cell
Car_crashed_rolling(self) ==
    [self EXCEPT !.vel = 0, !.crash_timer = @ - 1, !.posn = IF @ > 0 THEN @ - 1 ELSE @]

\* a crashed car that keeps its velocity
Car_crashed_moving(self) == [self EXCEPT !.crash_timer = @ - 1]

Car_crashed(self) == [self EXCEPT !.vel = 0, !.crash_timer = @ - 1]

\* ---- Car.update ----
Car_update_nowrap(self, p_ahead, road_len, slow) ==
    IF self.crash_timer # 0
    THEN Car_crashed(self)
    ELSE LET v1 == IF self.vel < MaxVel THEN self.vel + 1 ELSE self.vel
             pa == IF p_ahead < self.posn THEN p_ahead + road_len ELSE p_ahead
             v2 == IF (pa - self.posn) < v1 THEN pa - self.posn - 1 ELSE v1
             v3 == IF v2 > 0 /\ slow THEN v2 - 1 ELSE v2
         IN  [self EXCEPT !.vel = v3, !.posn = self.posn + v3]

Car_update(self, p_ahead, road_len, slow) ==
    IF self.crash_timer # 0
    THEN Car_crashed(self)
    ELSE LET v1 == IF self.vel < MaxVel THEN self.vel + 1 ELSE self.vel
             pa == IF p_ahead < self.posn THEN p_ahead + road_len ELSE p_ahead
             v2 == IF (pa - self.posn) < v1 THEN pa - self.posn - 1 ELSE v1
             v3 == IF v2 > 0 /\ slow THEN v2 - 1 ELSE v2
         IN  [self EXCEPT !.vel = v3, !.posn = (self.posn + v3) % road_len]

\* ---- ahead_behind ----
RECURSIVE BehindScan(_, _, _, _, _, _)
BehindScan(p, cars, road_len, k, minBehind, behindCar) ==
    IF k > Len(cars) THEN behindCar
    ELSE LET c == cars[k]
             d == p - c.posn
         IN  IF d > 0 /\ d < minBehind
             THEN BehindScan(p, cars, road_len, k + 1, d, c)
             ELSE IF d + road_len > 0 /\ d + road_len < minBehind
                  THEN BehindScan(p, cars, road_len, k + 1, d + road_len, c)
                  ELSE BehindScan(p, cars, road_len, k + 1, minBehind, behindCar)

RECURSIVE AheadScan(_, _, _, _, _, _)
AheadScan(p, cars, road_len, k, minAhead, aheadCar) ==
    IF k > Len(cars) THEN aheadCar
    ELSE LET c == cars[k]
             d == c.posn - p
         IN  IF d > 0 /\ d < minAhead
             THEN AheadScan(p, cars, road_len, k + 1, d, c)
             ELSE IF d + road_len > 0 /\ d + road_len < minAhead
                  THEN AheadScan(p, cars, road_len, k + 1, d + road_len, c)
                  ELSE AheadScan(p, cars, road_len, k + 1, minAhead, aheadCar)

\* the distances taken without the + road_len of the else branches
RECURSIVE NearestNoWrap(_, _, _, _, _, _)
NearestNoWrap(p, cars, sign, k, minD, best) ==
    IF k > Len(cars) THEN best
    ELSE LET d == sign * (p - cars[k].posn)
         IN  IF d > 0 /\ d < minD
             THEN NearestNoWrap(p, cars, sign, k + 1, d, cars[k])
             ELSE NearestNoWrap(p, cars, sign, k + 1, minD, best)

ahead_behind_nowrap(myCar, myLane, road_len) ==
    [behind |-> NearestNoWrap(myCar.posn, myLane.cars, 1, 1, road_len, None),
     ahead  |-> NearestNoWrap(myCar.posn, myLane.cars, -1, 1, road_len, None)]

ahead_behind(myCar, myLane, road_len) ==
    [behind |-> BehindScan(myCar.posn, myLane.cars, road_len, 1, road_len, None),
     ahead  |-> AheadScan(myCar.posn, myLane.cars, road_len, 1, road_len, None)]

\* ---- Lane.add_car, and the num_cars += 1 of its caller ----
add_car(lane, car) == [lane EXCEPT !.cars = SortedByPosn(Append(lane.cars, car))]

\* ---- the candidate space of one side in Car.update_wLC ----
\* adj is the adjacent lane, present: the side's space, -1 when disqualified
\* ab is what ahead_behind returned for the side (lines 114, 118)
SideSafe(self, ab, road_len) ==
    (ab.behind.posn + ab.behind.vel + 1) % road_len < self.posn

\* l_behind.posn (or l_ahead.posn) on None raises AttributeError
SideRaises(self, ab, road_len) ==
    \/ ab.behind = None
    \/ SideSafe(self, ab, road_len) /\ ab.ahead = None

SideSpace(self, ab, road_len) ==
    IF SideSafe(self, ab, road_len)
    THEN (ab.ahead.posn - self.posn) % road_len
    ELSE -1

\* one read of a field of a car: whose, which field, the value found
Read(c, f) == [id |-> c.id, field |-> f, val |-> IF f = "posn" THEN c.posn ELSE c.vel]

\* the reads of the adjacent lane adj made for one side: the scan of
\* ahead_behind reads the posn of every car of the lane (lines 140, 152), the
\* test of line 114 (118) the posn and vel of the car behind, and line 115
\* (119), when the test passes, the posn of the car ahead
SideReads(self, adj, ab, road_len) ==
    {Read(adj.cars[k], "posn") : k \in 1..Len(adj.cars)}
    \cup (IF ab.behind = None THEN {}
          ELSE {Read(ab.behind, "posn"), Read(ab.behind, "vel")}
               \cup (IF SideSafe(self, ab, road_len) /\ ab.ahead # None
                     THEN {Read(ab.ahead, "posn")} ELSE {}))

\* the right lane asked first
Choose_lane_right_first(mSpace, rSpace, lSpace) ==
    IF rSpace = Max3(rSpace, lSpace, mSpace) THEN "right"
    ELSE IF mSpace = Max3(rSpace, lSpace, mSpace) THEN "stay"
    ELSE IF lSpace = Max3(rSpace, lSpace, mSpace) THEN "left"
    ELSE "none"

\* the if / elif chain of Car.update_wLC
Choose_lane(mSpace, rSpace, lSpace) ==
    IF mSpace = Max3(rSpace, lSpace, mSpace) THEN "stay"
    ELSE IF rSpace = Max3(rSpace, lSpace, mSpace) THEN "right"
    ELSE IF lSpace = Max3(rSpace, lSpace, mSpace) THEN "left"
    ELSE "none"

\* ---- Car.update_wLC: the locals and the outcome of one call ----
\* adjs is <<left, right>>, each a lane index or -1 for Python's None
Decision(self, p_ahead, road_len, adjs, L, lab, rab) ==
    IF self.crash_timer # 0
    THEN [ret |-> "crashed", mSpace |-> 0, lSpace |-> -1, rSpace |-> -1, reads |-> {}]
    ELSE IF adjs[1] # -1 /\ SideRaises(self, lab, road_len)
    THEN [ret |-> "raise", mSpace |-> 0, lSpace |-> -1, rSpace |-> -1, reads |-> {}]
    ELSE IF adjs[2] # -1 /\ SideRaises(self, rab, road_len)
    THEN [ret |-> "raise", mSpace |-> 0, lSpace |-> -1, rSpace |-> -1, reads |-> {}]
    ELSE LET m == (p_ahead - self.posn) % road_len
             l == IF adjs[1] # -1 THEN SideSpace(self, lab, road_len) ELSE -1
             r == IF adjs[2] # -1 THEN SideSpace(self, rab, road_len) ELSE -1
             rd == (IF adjs[1] # -1 THEN SideReads(self, L[adjs[1]], lab, road_len) ELSE {})
                   \cup (IF adjs[2] # -1 THEN SideReads(self, L[adjs[2]], rab, road_len) ELSE {})
         IN  [ret |-> Choose_lane(m, r, l), mSpace |-> m, lSpace |-> l, rSpace |-> r,
              reads |-> rd]

Car_update_wLC(self, p_ahead, road_len, adjs, L) ==
    LET lab == IF adjs[1] # -1 THEN ahead_behind(self, L[adjs[1]], road_len)
               ELSE [behind |-> None, ahead |-> None]
        rab == IF adjs[2] # -1 THEN ahead_behind(self, L[adjs[2]], road_len)
               ELSE [behind |-> None, ahead |-> None]
    IN  Decision(self, p_ahead, road_len, adjs, L, lab, rab)

\* ---- Lane.update_wLC lines 53-55: pop the indices of toPop, last first ----
RemoveAt(s, i) == SubSeq(s, 1, i) \o SubSeq(s, i + 2, Len(s))

\* the indices popped first to last: each pop shifts the later ones
RECURSIVE PopAll_ascending(_, _)
PopAll_ascending(lane, tp) ==
    IF tp = <<>> THEN lane
    ELSE PopAll_ascending([lane EXCEPT !.cars = RemoveAt(@, tp[1]), !.num_cars = @ - 1],
                          SubSeq(tp, 2, Len(tp)))

\* the pops without the num_cars -= 1 of line 55
RECURSIVE PopAll_keeps_count(_, _)
PopAll_keeps_count(lane, tp) ==
    IF tp = <<>> THEN lane
    ELSE PopAll_keeps_count([lane EXCEPT !.cars = RemoveAt(@, tp[Len(tp)])],
                            SubSeq(tp, 1, Len(tp) - 1))

RECURSIVE PopAll(_, _)
PopAll(lane, tp) ==
    IF tp = <<>> THEN lane
    ELSE PopAll([lane EXCEPT !.cars = RemoveAt(@, tp[Len(tp)]), !.num_cars = @ - 1],
                SubSeq(tp, 1, Len(tp) - 1))

\* ---- Lane.crash_car, ind drawn from 0..num_cars-1 ----
crash_car(lane, ind) == [lane EXCEPT !.cars[ind + 1].crash_timer = CrashTime]

\* ---- construction: Road.__init__ and Lane.__init__ ----
Positions(road_len, n) == {S \in SUBSET (0..road_len - 1) : Cardinality(S) = n}

NewLane(road_len, ps, vs, first_id) ==
    [length |-> road_len,
     cars |-> [k \in 1..Cardinality(ps) |->
                  Car(first_id + k, SortedSeqOf(ps)[k], vs[k])],
     num_cars |-> Cardinality(ps)]

AllCars(L) == UNION {{L[i].cars[k] : k \in 1..Len(L[i].cars)} : i \in DOMAIN L}

\* the lane, position and velocity of every car, as a tick finds them
Snapshot(L) ==
    UNION {{[id |-> L[i].cars[k].id, lane |-> i, posn |-> L[i].cars[k].posn,
             vel |-> L[i].cars[k].vel] : k \in 1..Len(L[i].cars)} : i \in DOMAIN L}

NewRoad(n, road_len, cpl, ps, vs) ==
    /\ num_lanes = n
    /\ length = road_len
    /\ cars_per_lane = cpl
    /\ lanes = [i \in 0..n - 1 |-> NewLane(road_len, ps[i], vs[i], i * cpl)]
    /\ mode = "none"
    /\ lane_i = 0
    /\ car_i = 0
    /\ curr_posns = <<>>
    /\ toPop = <<>>
    /\ start = Snapshot(lanes)
    /\ since = [c \in 1..n * cpl |-> -1]

\* the roads constructed: Road(n, len, cpl) for each shape and each cpl
Shapes ==
    {[n |-> NumLanes, len |-> RoadLen, crashes |-> MaxCrashes],
     [n |-> WideLanes, len |-> WideLen, crashes |-> 0]}

Init ==
    \E sh \in Shapes :
       /\ \E cpl \in 0..MaxCarsPerLane :
          \E ps \in [0..sh.n - 1 -> Positions(sh.len, cpl)] :
          \E vs \in [0..sh.n - 1 -> [1..cpl -> MinInitVel..MaxInitVel]] :
             NewRoad(sh.n, sh.len, cpl, ps, vs)
       /\ pc = "idle"
       /\ last = [op |-> "none"]
       /\ ticks_left = MaxTicks
       /\ crashes_left = sh.crashes

\* ---- the loop over the lanes in Road.update and Road.update_wLC ----
\* the next lane's pass starts with its snapshot of positions (lines 39, 47)
NextLane(L) ==
    /\ lanes' = L
    /\ IF lane_i + 1 < num_lanes
       THEN /\ pc' = "lane"
            /\ lane_i' = lane_i + 1
            /\ curr_posns' = get_posns(L[lane_i + 1])
       ELSE /\ pc' = "idle"
            /\ lane_i' = 0
            /\ curr_posns' = <<>>
    /\ car_i' = 0
    /\ toPop' = <<>>

Raise ==
    /\ pc' = "raised"
    /\ UNCHANGED <<lanes, lane_i, car_i, curr_posns, toPop, since>>

\* one more update of car c since its crash, if it was crashed
Updated(c) ==
    [since EXCEPT ![c] = IF @ < 0 \/ @ > CrashTime THEN @ ELSE @ + 1]

Road_update_call ==
    /\ pc = "idle"
    /\ ticks_left > 0
    /\ ticks_left' = ticks_left - 1
    /\ mode' = "update"
    /\ pc' = "lane"
    /\ lane_i' = 0
    /\ car_i' = 0
    /\ curr_posns' = get_posns(lanes[0])
    /\ toPop' = <<>>
    /\ start' = Snapshot(lanes)
    /\ UNCHANGED <<num_lanes, length, cars_per_lane, lanes, last, since, crashes_left>>

Road_update_wLC_call ==
    /\ pc = "idle"
    /\ ticks_left > 0
    /\ ticks_left' = ticks_left - 1
    /\ mode' = "update_wLC"
    /\ pc' = "lane"
    /\ lane_i' = 0
    /\ car_i' = 0
    /\ curr_posns' = get_posns(lanes[0])
    /\ toPop' = <<>>
    /\ start' = Snapshot(lanes)
    /\ UNCHANGED <<num_lanes, length, cars_per_lane, lanes, last, since, crashes_left>>

\* ---- Lane.update: one iteration of the loop of lines 40-41 ----
Lane_update_step ==
    /\ pc = "lane"
    /\ mode = "update"
    /\ car_i < Len(lanes[lane_i].cars)
    /\ LET lane == lanes[lane_i]
           c == lane.cars[car_i + 1]
       IN  IF lane.num_cars = 0 \/ (car_i + 1) % lane.num_cars >= Len(curr_posns)
           THEN Raise /\ last' = [op |-> "update", id |-> c.id, ret |-> "raise"]
           ELSE \E slow \in BOOLEAN :
                LET p_ahead == curr_posns[((car_i + 1) % lane.num_cars) + 1]
                    c2 == Car_update(c, p_ahead, lane.length, slow)
                IN  /\ lanes' = [lanes EXCEPT ![lane_i].cars[car_i + 1] = c2]
                    /\ car_i' = car_i + 1
                    /\ since' = Updated(c.id)
                    /\ last' = [op |-> "update", id |-> c.id, lane |-> lane_i,
                                p_ahead |-> p_ahead, before |-> c, after |-> c2,
                                ret |-> IF c.crash_timer # 0 THEN "crashed" ELSE "moved"]
                    /\ UNCHANGED <<pc, lane_i, curr_posns, toPop>>
    /\ UNCHANGED <<num_lanes, length, cars_per_lane, mode, start, ticks_left, crashes_left>>

\* ---- self.lanes[ind].crash_car() and what follows it in the Road's loop ----
Crash_lane(ind) ==
    /\ crashes_left' = crashes_left - 1
    /\ IF lanes[ind].num_cars - 1 < 0
       THEN Raise /\ last' = [op |-> "crash_car", lane |-> ind, ret |-> "raise"]
       ELSE \E k \in 0..lanes[ind].num_cars - 1 :
            IF k >= Len(lanes[ind].cars)
            THEN Raise /\ last' = [op |-> "crash_car", lane |-> ind, ret |-> "raise"]
            ELSE /\ NextLane([lanes EXCEPT ![ind] = crash_car(@, k)])
                 /\ since' = [since EXCEPT ![lanes[ind].cars[k + 1].id] = 0]
                 /\ last' = [op |-> "crash_car", lane |-> ind, ind |-> k,
                             id |-> lanes[ind].cars[k + 1].id, ret |-> "ok"]

No_crash ==
    /\ NextLane(lanes)
    /\ last' = [op |-> "none"]
    /\ UNCHANGED <<since, crashes_left>>

\* the lanes r < .01 and randint may pick; -1 stands for r >= .01
Crash_draws == IF crashes_left > 0 THEN -1..num_lanes - 1 ELSE {-1}

\* ---- Road.update lines 181-185, after the pass of lane lane_i ----
Road_update_crash ==
    /\ pc = "lane"
    /\ mode = "update"
    /\ car_i = Len(lanes[lane_i].cars)
    /\ \E ind \in Crash_draws :
          IF ind = -1 THEN No_crash ELSE Crash_lane(ind)
    /\ UNCHANGED <<num_lanes, length, cars_per_lane, mode, start, ticks_left>>

\* ---- Lane.update_wLC: one iteration of the loop of lines 49-52 ----
Adjs(i) == <<IF i # 0 THEN i - 1 ELSE -1, IF i # num_lanes - 1 THEN i + 1 ELSE -1>>

Lane_update_wLC_step ==
    /\ pc = "lane"
    /\ mode = "update_wLC"
    /\ car_i < Len(lanes[lane_i].cars)
    /\ LET lane == lanes[lane_i]
           c == lane.cars[car_i + 1]
           adjs == Adjs(lane_i)
       IN  IF (car_i + 1) % Max2(lane.num_cars, 1) >= Len(curr_posns)
           THEN Raise /\ last' = [op |-> "update_wLC", id |-> c.id, ret |-> "raise"]
           ELSE \E slow \in BOOLEAN :
                \E p_ahead \in {curr_posns[((car_i + 1) % Max2(lane.num_cars, 1)) + 1]} :
                \E d \in {Car_update_wLC(c, p_ahead, lane.length, adjs, lanes)} :
                LET c2 == IF d.ret = "crashed" THEN Car_crashed(c)
                          ELSE IF d.ret = "stay" THEN Car_update(c, p_ahead, lane.length, slow)
                          ELSE c
                IN  IF d.ret = "raise"
                    THEN Raise /\ last' = [op |-> "update_wLC", id |-> c.id, ret |-> "raise"]
                    ELSE /\ lanes' =
                              IF d.ret = "right"
                              THEN [lanes EXCEPT ![adjs[2]] =
                                       [add_car(@, c) EXCEPT !.num_cars = @ + 1]]
                              ELSE IF d.ret = "left"
                              THEN [lanes EXCEPT ![adjs[1]] =
                                       [add_car(@, c) EXCEPT !.num_cars = @ + 1]]
                              ELSE [lanes EXCEPT ![lane_i].cars[car_i + 1] = c2]
                         /\ toPop' = IF d.ret \in {"right", "left"}
                                     THEN Append(toPop, car_i) ELSE toPop
                         /\ car_i' = car_i + 1
                         /\ since' = Updated(c.id)
                         /\ last' = [op |-> "update_wLC", id |-> c.id, lane |-> lane_i,
                                     p_ahead |-> p_ahead, before |-> c, after |-> c2,
                                     ahead_id |-> lane.cars[((car_i + 1) %
                                                     Max2(lane.num_cars, 1)) + 1].id,
                                     mSpace |-> d.mSpace, lSpace |-> d.lSpace,
                                     rSpace |-> d.rSpace, reads |-> d.reads,
                                     ret |-> d.ret]
                         /\ UNCHANGED <<pc, lane_i, curr_posns>>
    /\ UNCHANGED <<num_lanes, length, cars_per_lane, mode, start, ticks_left, crashes_left>>

\* ---- Lane.update_wLC lines 53-55, once the loop is over ----
Lane_update_wLC_pop ==
    /\ pc = "lane"
    /\ mode = "update_wLC"
    /\ car_i = Len(lanes[lane_i].cars)
    /\ lanes' = [lanes EXCEPT ![lane_i] = PopAll(@, toPop)]
    /\ pc' = "inject"
    /\ toPop' = <<>>
    /\ last' = [op |-> "none"]
    /\ UNCHANGED <<num_lanes, length, cars_per_lane, mode, lane_i, car_i, curr_posns,
                   start, since, ticks_left, crashes_left>>

\* ---- Road.update_wLC lines 199-204, after the pass of lane lane_i ----
Crash_guard_none(lane) == TRUE

Crash_guard(lane) == lane.num_cars > 0

Road_update_wLC_crash ==
    /\ pc = "inject"
    /\ \E ind \in Crash_draws :
          IF ind = -1 THEN No_crash
          ELSE IF Crash_guard(lanes[ind]) THEN Crash_lane(ind)
          ELSE No_crash
    /\ UNCHANGED <<num_lanes, length, cars_per_lane, mode, start, ticks_left>>

Next ==
    \/ Road_update_call
    \/ Road_update_wLC_call
    \/ Lane_update_step
    \/ Road_update_crash
    \/ Lane_update_wLC_step
    \/ Lane_update_wLC_pop
    \/ Road_update_wLC_crash

Spec == Init /\ [][Next]_vars

\* ---- long runs: a crash_timer of 30 runs out within CrashTime + 2 ticks ----
InitLong ==
    /\ \E cpl \in 0..MaxCarsPerLane :
       \E ps \in [0..LongLanes - 1 -> Positions(RoadLen, cpl)] :
       \E vs \in [0..LongLanes - 1 -> [1..cpl -> MinInitVel..MaxInitVel]] :
          NewRoad(LongLanes, RoadLen, cpl, ps, vs)
    /\ pc = "idle"
    /\ last = [op |-> "none"]
    /\ ticks_left = CrashTime + 2
    /\ crashes_left = MaxCrashes

SpecLong == InitLong /\ [][Next]_vars

\* ---- one tick on a three-lane road, without crash injection ----
InitTri ==
    /\ \E cpl \in 0..MaxCarsPerLane :
       \E ps \in [0..TriLanes - 1 -> Positions(TriLen, cpl)] :
       \E vs \in [0..TriLanes - 1 -> [1..cpl -> MinInitVel..MaxInitVel]] :
          NewRoad(TriLanes, TriLen, cpl, ps, vs)
    /\ pc = "idle"
    /\ last = [op |-> "none"]
    /\ ticks_left = TriTicks
    /\ crashes_left = 0

SpecTri == InitTri /\ [][Next]_vars

\* ---- ahead_behind on its own: myCar at any position, myLane any lane ----
InitAB ==
    /\ \E road_len \in 1..ABMaxLen :
       \E n \in 0..ABMaxCars :
       \E ps \in Positions(road_len, n) :
       \E p \in 0..road_len - 1 :
          /\ NewRoad(1, road_len, n, [i \in {0} |-> ps], [i \in {0} |-> [k \in 1..n |-> 1]])
          /\ last = [op |-> "call", myCar |-> Car(n + 1, p, 1)]
    /\ pc = "ahead_behind"
    /\ ticks_left = 0
    /\ crashes_left = 0

Call_ahead_behind ==
    /\ pc = "ahead_behind"
    /\ last.op = "call"
    /\ last' = [op |-> "ahead_behind", myCar |-> last.myCar,
                ret |-> ahead_behind(last.myCar, lanes[0], length)]
    /\ UNCHANGED <<num_lanes, length, cars_per_lane, lanes, pc, mode, lane_i, car_i,
                   curr_posns, toPop, start, since, ticks_left, crashes_left>>

SpecAB == InitAB /\ [][Call_ahead_behind]_vars

\* ---- Road.vel_vec ----
\* the loop of lines 215-216 over zip(pVals, vVals): each pair writes its cell;
\* a negative index of a numpy array counts from the end of the row
RECURSIVE FillRow(_, _, _, _)
FillRow(row, pVals, vVals, k) ==
    IF k > Len(pVals) \/ k > Len(vVals) THEN row
    ELSE LET p == IF pVals[k] < 0 THEN pVals[k] + Cardinality(DOMAIN row) ELSE pVals[k]
         IN  FillRow([row EXCEPT ![p] = vVals[k]], pVals, vVals, k + 1)

\* the grid left at np.zeros, without the - 1
vel_vec_zeros(L, n, road_len) ==
    [i \in 0..n - 1 |->
        FillRow([p \in 0..road_len - 1 |-> 0], get_posns(L[i]), get_vels(L[i]), 1)]

vel_vec(L, n, road_len) ==
    [i \in 0..n - 1 |->
        FillRow([p \in 0..road_len - 1 |-> -1], get_posns(L[i]), get_vels(L[i]), 1)]

\* ---- vel_vec right after construction: Road(n, len, cpl) for cpl <= len ----
InitVV ==
    /\ \E n \in 1..VVLanes :
       \E road_len \in 1..VVLen :
       \E cpl \in 0..road_len :
       \E ps \in [0..n - 1 -> Positions(road_len, cpl)] :
       \E vs \in [0..n - 1 -> [1..cpl -> MinInitVel..MaxVel]] :
          NewRoad(n, road_len, cpl, ps, vs)
    /\ pc = "vel_vec"
    /\ last = [op |-> "call"]
    /\ ticks_left = 0
    /\ crashes_left = 0

Call_vel_vec ==
    /\ pc = "vel_vec"
    /\ last.op = "call"
    /\ last' = [op |-> "vel_vec", ret |-> vel_vec(lanes, num_lanes, length)]
    /\ UNCHANGED <<num_lanes, length, cars_per_lane, lanes, pc, mode, lane_i, car_i,
                   curr_posns, toPop, start, since, ticks_left, crashes_left>>

SpecVV == InitVV /\ [][Call_vel_vec]_vars

\* ======================= properties =======================
Idle == pc = "idle"

Range(f) == {f[x] : x \in DOMAIN f}

CarsOf(i) == {lanes[i].cars[k] : k \in 1..Len(lanes[i].cars)}

LaneIds(i) == {c.id : c \in CarsOf(i)}

NoOverlap(i) ==
    \A k1, k2 \in 1..Len(lanes[i].cars) :
        k1 # k2 => lanes[i].cars[k1].posn # lanes[i].cars[k2].posn

\* the car changed lane since the tick began
ChangedLane(c) == \E r \in start : r.id = c /\ c \notin LaneIds(r.lane)

\* C1: after every completed Road.update() and Road.update_wLC(), no two cars
\* of the same lane have the same position
C1_NoOverlap == Idle => \A i \in 0..num_lanes - 1 : NoOverlap(i)

\* C2: after each completed tick the lanes hold num_lanes * cars_per_lane cars
\* in all, and every car is in exactly one lane's list, once
C2_Conservation ==
    Idle =>
        /\ \A c \in 1..num_lanes * cars_per_lane :
              \E i \in 0..num_lanes - 1 :
                 /\ Cardinality({k \in 1..Len(lanes[i].cars) : lanes[i].cars[k].id = c}) = 1
                 /\ \A j \in 0..num_lanes - 1 : j # i => c \notin LaneIds(j)
        /\ \A i \in 0..num_lanes - 1 : LaneIds(i) \subseteq 1..num_lanes * cars_per_lane

\* a completed Road.update_wLC() in which a car went to another lane
C2_Witness ==
    /\ Idle
    /\ mode = "update_wLC"
    /\ \E c \in 1..num_lanes * cars_per_lane : ChangedLane(c)

\* C3: every car's velocity is within 0..5 in every reachable state
C3_VelocityBounds == \A c \in AllCars(lanes) : 0 <= c.vel /\ c.vel <= MaxVel

\* the car of the last Car.update / Car.update_wLC call, as it is now
LastCar == CHOOSE c \in AllCars(lanes) : c.id = last.id

\* where the car of the last Car.update_wLC call is found after the call
LastInRight == last.lane + 1 <= num_lanes - 1 /\ last.id \in LaneIds(last.lane + 1)

LastInLeft == last.lane - 1 >= 0 /\ last.id \in LaneIds(last.lane - 1)

LastDecided == last.op = "update_wLC" /\ last.ret \in {"stay", "right", "left", "none"}

\* C5: a car that is not crashed stays and runs the no-lane-change rule iff
\* mSpace >= max(rSpace, lSpace); otherwise it goes right iff rSpace >= lSpace;
\* otherwise left; it changes lane only to a side with more space than mSpace
C5_TieBreak ==
    LastDecided =>
        LET m == last.mSpace
            r == last.rSpace
            l == last.lSpace
            stays == m >= Max2(r, l)
        IN  /\ stays <=> (~LastInRight /\ ~LastInLeft /\ car_i - 1 \notin Range(toPop))
            /\ stays => last.ret = "stay" /\ LastCar = last.after
            /\ (~stays /\ r >= l) <=> (LastInRight /\ ~LastInLeft)
            /\ (~stays /\ r < l) <=> (LastInLeft /\ ~LastInRight)
            /\ LastInRight => r > m
            /\ LastInLeft => l > m

\* the three spaces are equal and the car stayed in its lane
C5_Witness ==
    /\ LastDecided
    /\ last.mSpace = last.rSpace
    /\ last.rSpace = last.lSpace
    /\ ~LastInRight
    /\ ~LastInLeft
    /\ last.id \in LaneIds(last.lane)

\* the last call ran the movement rule of Car.update lines 89-98
LastAdvanced ==
    /\ last.op \in {"update", "update_wLC"}
    /\ last.ret \in {"moved", "stay"}

\* C7: every position is in 0..length-1, and a car that advanced with resulting
\* velocity v from position p is at (p + v) mod length
C7_Wraparound ==
    /\ \A c \in AllCars(lanes) : c.posn \in 0..length - 1
    /\ LastAdvanced => LastCar.posn = (last.before.posn + LastCar.vel) % length

\* a car at length-1 advanced with velocity 2 and is at position 1
C7_Witness ==
    /\ LastAdvanced
    /\ last.before.posn = length - 1
    /\ LastCar.vel = 2
    /\ LastCar.posn = 1

\* the value read is the one the field had when the tick began
AsAtStart(rd) ==
    \E r \in start :
       /\ r.id = rd.id
       /\ rd.val = IF rd.field = "posn" THEN r.posn ELSE r.vel

\* C8: every gap a car's decision uses in Road.update_wLC comes from positions
\* and velocities the other cars had when the Road tick began
C8_SnapshotReads ==
    (last.op = "update_wLC" /\ last.ret \in {"stay", "right", "left"}) =>
        /\ \A rd \in last.reads : AsAtStart(rd)
        /\ \E r \in start : r.id = last.ahead_id /\ r.posn = last.p_ahead

\* C9: Road.update_wLC() never raises
C9_TickCompletes == ~(mode = "update_wLC" /\ pc = "raised")

\* C10: in Road.update_wLC, crash_car is invoked only on a lane with cars, its
\* index is one of the list, and it sets one car's crash_timer to 30 and
\* changes nothing else
C10_GuardedCrash ==
    [][pc = "inject" =>
        /\ pc' # "raised"
        /\ \/ lanes' = lanes
           \/ /\ last'.op = "crash_car"
              /\ Len(lanes[last'.lane].cars) > 0
              /\ last'.ind \in 0..Len(lanes[last'.lane].cars) - 1
              /\ lanes' = [lanes EXCEPT
                              ![last'.lane].cars[last'.ind + 1].crash_timer = CrashTime]]_vars

\* Road.update_wLC has just crashed a car
C10_Witness ==
    /\ mode = "update_wLC"
    /\ last.op = "crash_car"
    /\ \E c \in CarsOf(last.lane) : c.id = last.id /\ c.crash_timer = CrashTime

\* the updates of car c since a crash was injected on it (-1: never crashed)
\* C4, as the code has it: a car on which a crash is injected has crash_timer
\* 30; after each of its next 30 updates its velocity is 0 and its crash_timer
\* is 30 less the number of those updates, so it is 0 after the 30th; the 31st
\* update runs the normal movement rule
C4_Immobilized ==
    /\ \A c \in AllCars(lanes) :
          /\ since[c.id] \in 0..CrashTime => c.crash_timer = CrashTime - since[c.id]
          /\ since[c.id] \in 1..CrashTime => c.vel = 0
          /\ since[c.id] = CrashTime + 1 => c.crash_timer = 0
    /\ (last.op \in {"update", "update_wLC"} /\ last.ret # "raise"
          /\ since[last.id] = CrashTime + 1) => last.ret \in {"moved", "stay", "right", "left"}

\* the 31st update after the injection has run the movement rule
C4_Witness ==
    /\ last.op \in {"update", "update_wLC"}
    /\ last.ret \in {"moved", "stay"}
    /\ since[last.id] = CrashTime + 1
    /\ last.before.vel = 0
    /\ last.before.crash_timer = 0

\* C4, as claimed: velocity 0 for the next 30 ticks, and the crash_timer
\* reaches 0 at tick 31 after the injection, not earlier
C4_AsClaimed ==
    \A c \in AllCars(lanes) :
       /\ since[c.id] \in 1..CrashTime => c.vel = 0
       /\ since[c.id] \in 0..CrashTime => c.crash_timer > 0
       /\ since[c.id] = CrashTime + 1 => c.crash_timer = 0

\* the circular distances of ahead_behind's contract
BehindDist(p, c, road_len) == (p - c.posn) % road_len

AheadDist(p, c, road_len) == (c.posn - p) % road_len

\* C6: ahead_behind returns as behind a car of the lane that minimizes
\* (p - c.posn) mod L among those at a distance in 1..L-1, as ahead one that
\* minimizes (c.posn - p) mod L likewise, and None for a side without such a car;
\* cars at 2, 9, 15 of L = 20 and p = 17 give behind 15 and ahead 2
C6_AheadBehind ==
    last.op = "ahead_behind" =>
        LET p == last.myCar.posn
            B == {c \in CarsOf(0) : BehindDist(p, c, length) \in 1..length - 1}
            A == {c \in CarsOf(0) : AheadDist(p, c, length) \in 1..length - 1}
            b == last.ret.behind
            a == last.ret.ahead
        IN  /\ B = {} => b = None
            /\ B # {} => b \in B /\ \A c \in B :
                              BehindDist(p, b, length) <= BehindDist(p, c, length)
            /\ A = {} => a = None
            /\ A # {} => a \in A /\ \A c \in A :
                              AheadDist(p, a, length) <= AheadDist(p, c, length)
            /\ (length = 20 /\ get_posns(lanes[0]) = <<2, 9, 15>> /\ p = 17)
                  => b.posn = 15 /\ a.posn = 2

\* the example: both neighbours found, the one ahead across the wraparound
C6_Witness ==
    /\ last.op = "ahead_behind"
    /\ length = 20
    /\ get_posns(lanes[0]) = <<2, 9, 15>>
    /\ last.myCar.posn = 17
    /\ last.ret.behind.posn = 15
    /\ last.ret.ahead.posn = 2

\* C11: in Road.update(), crash_car is invoked only on a lane with cars, and the
\* tick never fails because of the crash injection
C11_UpdateCrashOnCars ==
    (mode = "update" /\ last.op = "crash_car") =>
        /\ last.ret = "ok"
        /\ pc # "raised"
        /\ Len(lanes[last.lane].cars) > 0

\* C12: the grid vel_vec() returns right after construction has num_lanes rows
\* of length cells; in every row exactly cars_per_lane cells differ from -1,
\* each holding the velocity, in 1..5, of the car at that cell, and
\* length - cars_per_lane cells are -1
C12_VelVecAfterConstruction ==
    last.op = "vel_vec" =>
        LET g == last.ret
        IN  /\ DOMAIN g = 0..num_lanes - 1
            /\ \A i \in 0..num_lanes - 1 :
                  /\ DOMAIN g[i] = 0..length - 1
                  /\ Cardinality({p \in 0..length - 1 : g[i][p] # -1}) = cars_per_lane
                  /\ Cardinality({p \in 0..length - 1 : g[i][p] = -1})
                        = length - cars_per_lane
                  /\ \A p \in 0..length - 1 :
                        g[i][p] # -1 =>
                           /\ g[i][p] \in 1..5
                           /\ \E c \in CarsOf(i) : c.posn = p /\ c.vel = g[i][p]
                  /\ \A c \in CarsOf(i) : g[i][c.posn] = c.vel

\* the grid of a Road(2, 3, 2): the second row holds 5, -1, 1
C12_Witness ==
    /\ last.op = "vel_vec"
    /\ num_lanes = 2
    /\ length = 3
    /\ cars_per_lane = 2
    /\ last.ret[1][0] = 5
    /\ last.ret[1][1] = -1
    /\ last.ret[1][2] = 1

\* the car of snapshot record r as it is now
NowOf(r) == CHOOSE c \in AllCars(lanes) : c.id = r.id

\* C13: a car that a Road.update_wLC() call transferred to another lane has, at
\* the end of the call, the position and the velocity it had at its start
C13_LaneChangeOnly ==
    (Idle /\ mode = "update_wLC") =>
        \A r \in start :
           r.id \notin LaneIds(r.lane) =>
              NowOf(r).posn = r.posn /\ NowOf(r).vel = r.vel

\* the index of the lane whose list holds car c
LaneOf(c) == CHOOSE i \in 0..num_lanes - 1 : c \in LaneIds(i)

\* C14: at the end of a Road.update_wLC() call every car is in the lane it was
\* in at the start of the call or in one next to it
C14_OneLanePerTick ==
    (Idle /\ mode = "update_wLC") =>
        \A r \in start :
           LaneOf(r.id) - r.lane \in {-1, 0, 1}

\* the last Car.update_wLC call moved its car to an adjacent lane
LastMoved == last.op = "update_wLC" /\ last.ret \in {"right", "left"}

\* the lane the last Car.update_wLC call moved its car to
LastTarget == IF last.ret = "right" THEN last.lane + 1 ELSE last.lane - 1

\* C15: when Car.update_wLC moves a car at position p to an adjacent lane, that
\* lane holds no car at p: after the insertion the moved car is the only one
\* of the lane's list at p
C15_TargetCellFree ==
    LastMoved =>
        Cardinality({k \in 1..Len(lanes[LastTarget].cars) :
                        lanes[LastTarget].cars[k].posn = last.before.posn}) = 1

\* the nearest car behind the moved car in the lane it was moved to; the moved
\* car itself, at distance 0, is not a candidate of ahead_behind
LastBehind == ahead_behind(last.before, lanes[LastTarget], length).behind

\* C16: a car at position p is moved to an adjacent lane only if the nearest car
\* behind it in that lane, at position b with velocity v, is at a circular
\* distance (p - b) mod length greater than v + 1
C16_RearSafety ==
    LastMoved =>
        (last.before.posn - LastBehind.posn) % length > LastBehind.vel + 1

\* the forward gap the rule of the last call worked with: p_ahead - posn after
\* the + road_len of Car.update line 92, mSpace in Car.update_wLC
LastGap ==
    IF last.op = "update"
    THEN (IF last.p_ahead < last.before.posn THEN last.p_ahead + length ELSE last.p_ahead)
            - last.before.posn
    ELSE last.mSpace

\* the circular distances, from the car of the last call, to the other cars of
\* its lane where the lane pass found them
AheadDists ==
    {(curr_posns[k] - last.before.posn) % length :
        k \in (1..Len(curr_posns)) \ {car_i}} \ {0}

\* C17: the forward gap a car's rule works with in Lane.update and
\* Lane.update_wLC is at least 1, also for the only car of a lane, and is the
\* circular distance to the nearest other car ahead of it in its lane as the
\* lane pass found the lane
C17_ForwardGap ==
    (pc = "lane" /\ last.op \in {"update", "update_wLC"}
        /\ last.ret \in {"moved", "stay", "right", "left", "none"}) =>
        /\ LastGap >= 1
        /\ AheadDists # {} => LastGap = SetMin(AheadDists)

\* C18: at the start of every Lane.update pass the lane's cars list is sorted
\* by position, in increasing order
C18_SortedAtUpdate ==
    (pc = "lane" /\ mode = "update" /\ car_i = 0) =>
        \A k \in 1..Len(lanes[lane_i].cars) - 1 :
           lanes[lane_i].cars[k].posn <= lanes[lane_i].cars[k + 1].posn

\* C19: the update of a car with crash_timer > 0, by Car.update or by
\* Car.update_wLC, sets its velocity to 0 and decrements its crash_timer and
\* changes nothing else: the car keeps its position and its place in its lane's
\* list, it is not marked as moved, and no other car or lane is modified
C19_CrashedFrame ==
    [][(/\ pc = "lane"
        /\ car_i < Len(lanes[lane_i].cars)
        /\ lanes[lane_i].cars[car_i + 1].crash_timer > 0) =>
           /\ pc' = "lane"
           /\ car_i' = car_i + 1
           /\ toPop' = toPop
           /\ lanes' = [lanes EXCEPT ![lane_i].cars[car_i + 1] =
                           [@ EXCEPT !.vel = 0, !.crash_timer = @ - 1]]]_vars

\* Car.update_wLC has updated a crashed car that had a velocity and a lane on
\* its right
C19_Witness ==
    /\ last.op = "update_wLC"
    /\ last.ret = "crashed"
    /\ last.before.vel > 0
    /\ last.before.crash_timer = CrashTime
    /\ last.lane + 1 <= num_lanes - 1
    /\ \E c \in CarsOf(last.lane) :
          /\ c.id = last.id
          /\ c.posn = last.before.posn
          /\ c.vel = 0
          /\ c.crash_timer = CrashTime - 1

CountersAgree == \A i \in 0..num_lanes - 1 : lanes[i].num_cars = Len(lanes[i].cars)

\* C20: num_cars equals the length of cars for every lane after construction
\* and after every completed Road.update() and Road.update_wLC(), and for a lane
\* at the start of its own pass, arrivals from the lane before it included; so
\* the index (i + 1) mod num_cars is one of the positions snapshot, and where a
\* crash index is drawn from 0..num_cars-1 it is an index of the lane's list
C20_CounterConsistency ==
    /\ Idle => CountersAgree
    /\ (pc = "lane" /\ car_i = 0) => lanes[lane_i].num_cars = Len(lanes[lane_i].cars)
    /\ (pc = "lane" /\ car_i < Len(lanes[lane_i].cars)) =>
          /\ lanes[lane_i].num_cars > 0
          /\ (car_i + 1) % lanes[lane_i].num_cars \in 0..Len(curr_posns) - 1
    /\ (pc = "inject" \/ (pc = "lane" /\ car_i = Len(lanes[lane_i].cars))) => CountersAgree
    /\ (last.op = "crash_car" /\ last.ret = "ok") =>
          last.ind \in 0..Len(lanes[last.lane].cars) - 1

\* the pass of lane 1 in Road.update_wLC starts with an arrival from lane 0
C20_Witness ==
    /\ pc = "lane"
    /\ mode = "update_wLC"
    /\ lane_i = 1
    /\ car_i = 0
    /\ cars_per_lane = 2
    /\ lanes[1].num_cars = 3
    /\ Len(lanes[1].cars) = 3
    /\ lanes[0].num_cars = 1
    /\ Len(lanes[0].cars) = 1

====
